---- MODULE Spec2Model ----
(***************************************************************************)
(* SyncStream server (src/server/index.js): the Redis-backed room store,   *)
(* the socket.io event handlers of one server process and the connections  *)
(* they serve.                                                             *)
(*                                                                         *)
(* A Redis hash is a function from the field names it holds to their       *)
(* values; a key that does not exist is the empty hash.  Every handler is  *)
(* one action (Spec); SpecAwait runs handleLeaveRoom one store operation   *)
(* at a time, the granularity at which Node interleaves async handlers.    *)
(***************************************************************************)
EXTENDS Integers, Sequences, FiniteSets, TLC

\* ------------------------------------------------------------------ bounds
\* Connections, participant ids and room codes the model ranges over.
Sockets == {"s1", "s2", "s3"}
UserIds == {"u1", "u2", "u3"}
Rooms   == {"R1"}
\* A second room id, for the payloads that name a room of their own; the store
\* has keys for both.
OtherRoom == "R2"
RoomIds == Rooms \cup {OtherRoom}
\* Two of the connections, for the specifications that need no third.
Pair == {"s1", "s2"}
\* The client sends its own user.id on every join (App: user_${Date.now()}).
UserOf == [s \in Sockets |-> CASE s = "s1" -> "u1" [] s = "s2" -> "u2" [] OTHER -> "u3"]

\* config.room.maxParticipants is 50; the model runs a room of this capacity.
MaxParticipants == 2
\* Date.now() takes values 0..MaxTime.
MaxTime == 1
\* LTRIM keeps the last 100 messages; the model keeps the last ChatLimit.
ChatLimit == 2
\* chat_message refuses a text of more than this many characters.
MaxTextLength == 500
\* A chat text is its length and its length once trimmed: the empty text, a blank,
\* a letter, the longest text allowed and one a character longer.
Texts ==
  {[len |-> 0, trimmed |-> 0], [len |-> 1, trimmed |-> 0], [len |-> 1, trimmed |-> 1],
   [len |-> MaxTextLength, trimmed |-> MaxTextLength],
   [len |-> MaxTextLength + 1, trimmed |-> MaxTextLength + 1]}
\* A chat text that passes both checks of chat_message.
Hello == [len |-> 1, trimmed |-> 1]
\* Playback positions a client reports: 0..MaxPosition seconds.
MaxPosition == 1
Positions == 0..MaxPosition
\* Playback reports and media changes served in one run (SpecSync, SpecMedia).
MaxCalls == 3
\* Leave and disconnect events dispatched in one run (SpecAwait).
MaxLeaves == 2
\* The media a client loads.
Media == {[mediaType |-> "youtube", mediaUrl |-> "y"], [mediaType |-> "url", mediaUrl |-> "v"]}
\* Longest chat list the model lets grow (the untrimmed pushes are unbounded).
MaxMessages == 3
\* The number of stored messages join_room sends as history (50 in the source,
\* half of the 100 the chat list is trimmed to); here half of ChatLimit.
HistoryWindow == 1
\* config.room.idleTimeout is one hour; the model's is this many ticks of now.
IdleTimeout == 1
\* TTL of a key that has none.
NoTtl == -1

Null   == "null"
Absent == [f \in {} |-> 0]
\* What getRoomData returns for a room it does not find (null).
NoRoom == Absent

VARIABLES
  roomHash,        \* room:{roomId}                hash, per room
  participantSet,  \* room:{roomId}:participants   set of user ids, per room
  userHash,        \* user:{roomId}:{userId}       hash, per room and user
  messageList,     \* room:{roomId}:messages       list, per room
  expiry,          \* when the TTL of room:{roomId} was armed, NoTtl if it has none
  currentRoom,     \* closure variable of each connection
  currentUser,     \* closure variable of each connection (the user's id)
  socketRooms,     \* socket.io rooms each connection has joined
  now,             \* Date.now()
  last,            \* the inbound event the last step served
  out,             \* events emitted by the last step
  writer,          \* history: the call that last wrote each playback field of a room
  calls,           \* history: playback and media events, or leave dispatches, served so far
  task,            \* runs of handleLeaveRoom suspended on a store command (SpecAwait)
  closed,          \* connections whose transport has gone (SpecAwait)
  sent,            \* history: leave events emitted for a connection since it joined
  client,          \* the React state and player of the browser behind each connection
  emitted          \* what the last browser step emitted on its socket

store == <<roomHash, participantSet, userHash, messageList, expiry, writer>>
conn  == <<currentRoom, currentUser, socketRooms>>
await == <<task, closed, sent>>
browser == <<client, emitted>>
vars  == <<roomHash, participantSet, userHash, messageList, expiry,
           currentRoom, currentUser, socketRooms, now, last, out,
           writer, calls, task, closed, sent, client, emitted>>

\* ------------------------------------------------------------ Redis store
\* The store as one value, so that a handler is a composition of commands.
Store ==
  [room |-> roomHash, parts |-> participantSet, user |-> userHash,
   msgs |-> messageList, ttl |-> expiry, by |-> writer]

Exists(h) == DOMAIN h # {}

\* An HMSET that fills the missing fields and keeps the values already stored.
HMSetKeepsOld(h, fields) == h @@ fields

\* HMSET / HSET: the given fields overwrite, the others stay.
HMSet(h, fields) == fields @@ h

HmsetRoom(st, r, fields) == [st EXCEPT !.room[r] = HMSet(@, fields)]
HmsetUser(st, r, u, fields) == [st EXCEPT !.user[r][u] = HMSet(@, fields)]
SAdd(st, r, u) == [st EXCEPT !.parts[r] = @ \cup {u}]
SRem(st, r, u) == [st EXCEPT !.parts[r] = @ \ {u}]
SCard(st, r) == Cardinality(st.parts[r])
DelUser(st, r, u) == [st EXCEPT !.user[r][u] = Absent]
\* The call that wrote a field: its number (0 for the write that creates a room)
\* and its event.
Call(n, ev) == [n |-> n, ev |-> ev]
NoCall == Call(0, "")
Tracked == {"isPlaying", "currentTime", "lastSync"}
NoWrites == [f \in Tracked |-> NoCall]
\* History only: call c wrote these fields of room r.
Stamp(st, r, fields, c) ==
  [st EXCEPT !.by[r] = [f \in Tracked |-> IF f \in DOMAIN fields THEN c ELSE @[f]]]
\* DEL of the room key drops its TTL with it.
DelRoomKey(st, r) ==
  [st EXCEPT !.room[r] = Absent, !.ttl[r] = NoTtl, !.by[r] = NoWrites]
DelParticipants(st, r) == [st EXCEPT !.parts[r] = {}]
DelMessages(st, r) == [st EXCEPT !.msgs[r] = <<>>]
RPush(st, r, m) == [st EXCEPT !.msgs[r] = Append(@, m)]
\* LTRIM key -n -1: the last n entries stay.
LTrim(st, r, n) ==
  [st EXCEPT !.msgs[r] = IF Len(@) > n THEN SubSeq(@, Len(@) - n + 1, Len(@)) ELSE @]
\* LRANGE key -n -1: the last n entries, oldest first.
LRange(st, r, n) ==
  LET q == st.msgs[r] IN IF Len(q) > n THEN SubSeq(q, Len(q) - n + 1, Len(q)) ELSE q
\* EXPIRE key idleTimeout: the TTL runs from now; on a key that does not exist it
\* does nothing.
Expire(st, r) == IF Exists(st.room[r]) THEN [st EXCEPT !.ttl[r] = now] ELSE st

\* ------------------------------------------------------ utility functions
\* parseFloat(v) || 0 on a stored field: the number a string spells, 0 for any other.
ParseFloat(v) == IF v \in Int THEN v ELSE 0

\* getRoomData: null unless the hash has an id; isPlaying and currentTime parsed
\* from their strings.
getRoomData(st, r) ==
  IF "id" \notin DOMAIN st.room[r] THEN NoRoom
  ELSE [st.room[r] EXCEPT !.isPlaying = (@ = "true"), !.currentTime = ParseFloat(@)]

\* The participants of the membership set that have a record with an id.
Listed(st, r) == {u \in st.parts[r] : "id" \in DOMAIN st.user[r][u]}

\* getRoomParticipants sorting with (a, b) => b.joinedAt - a.joinedAt.
getRoomParticipantsLatestFirst(st, r) ==
  LET P == {u \in st.parts[r] : "id" \in DOMAIN st.user[r][u]}
      n == Cardinality(P)
  IN {q \in [1..n -> P] :
        /\ \A i, j \in 1..n : i # j => q[i] # q[j]
        /\ \A i, j \in 1..n : i < j =>
             st.user[r][q[i]].joinedAt >= st.user[r][q[j]].joinedAt}

\* getRoomParticipants without its sort: the listed participants in SMEMBERS' order.
getRoomParticipantsUnsorted(st, r) ==
  LET P == {u \in st.parts[r] : "id" \in DOMAIN st.user[r][u]}
      n == Cardinality(P)
  IN {q \in [1..n -> P] : \A i, j \in 1..n : i # j => q[i] # q[j]}

\* getRoomParticipants: the listed participants sorted by joinedAt; the sort is
\* stable over SMEMBERS' order, which Redis does not fix, so ties come in any order.
getRoomParticipants(st, r) ==
  LET P == Listed(st, r)
      n == Cardinality(P)
  IN {q \in [1..n -> P] :
        /\ \A i, j \in 1..n : i # j => q[i] # q[j]
        /\ \A i, j \in 1..n : i < j =>
             st.user[r][q[i]].joinedAt <= st.user[r][q[j]].joinedAt}

\* deleteRoom: the records of the current members, then the three room keys.
RECURSIVE DelUsers(_, _, _)
DelUsers(st, r, us) ==
  IF us = {} THEN st
  ELSE LET u == CHOOSE x \in us : TRUE
       IN DelUsers(DelUser(st, r, u), r, us \ {u})

\* GET /api/room/:roomId
ApiGetRoom(st, r) ==
  IF getRoomData(st, r) = NoRoom
  THEN [status |-> 404, error |-> "Room not found", participantCount |-> 0]
  ELSE [status |-> 200, error |-> "",
        participantCount |-> Cardinality(Listed(st, r))]

\* deleteRoom without the DEL of room:{roomId}:messages.
deleteRoomKeepsMessages(st, r) ==
  DelParticipants(DelRoomKey(DelUsers(st, r, st.parts[r]), r), r)

deleteRoom(st, r) ==
  DelMessages(DelParticipants(DelRoomKey(DelUsers(st, r, st.parts[r]), r), r), r)

\* ------------------------------------------------------------- transport
Ev(name, to, arg) == [ev |-> name, to |-> to, arg |-> arg]
InRoom(sr, r) == {t \in Sockets : r \in sr[t]}
\* socket.emit, socket.to(room).emit, io.to(room).emit
ToSelf(s) == {s}
ToOthers(sr, s, r) == InRoom(sr, r) \ {s}
ToAll(sr, r) == InRoom(sr, r)

\* A stored chat message: its type and the length of its text.
SystemMessage == [type |-> "system", len |-> 1]
UserMessage(n) == [type |-> "user", len |-> n]

Commit(st) ==
  /\ roomHash' = st.room
  /\ participantSet' = st.parts
  /\ userHash' = st.user
  /\ messageList' = st.msgs
  /\ expiry' = st.ttl
  /\ writer' = st.by

In(ev, s, arg) == [ev |-> ev, s |-> s, arg |-> arg]
\* A browser before it enters a room: useState(null) for room, useState(false)
\* for isHost, useRef(false) for isSyncing, no media and so no player, and no
\* callback of the player due to a sync event it was moved by.
Lobby == [room |-> Null, isHost |-> FALSE, isSyncing |-> FALSE, loaded |-> FALSE,
          applied |-> FALSE]
\* What a browser step put on its socket (ev is "" when it emitted nothing), and
\* what caused the step: the user ("user"), the event the browser received, or
\* a sync event it applied earlier ("sync": the player's callback, the timer).
Emit(s, ev, arg, cause) == [s |-> s, ev |-> ev, arg |-> arg, cause |-> cause]
NoSent == [left |-> 0, host |-> 0, notice |-> 0]

Init ==
  /\ roomHash = [r \in RoomIds |-> Absent]
  /\ participantSet = [r \in RoomIds |-> {}]
  /\ userHash = [r \in RoomIds |-> [u \in UserIds |-> Absent]]
  /\ messageList = [r \in RoomIds |-> <<>>]
  /\ expiry = [r \in RoomIds |-> NoTtl]
  /\ currentRoom = [s \in Sockets |-> Null]
  /\ currentUser = [s \in Sockets |-> Null]
  /\ socketRooms = [s \in Sockets |-> {}]
  /\ now = 0
  /\ last = In("", "", "")
  /\ out = <<>>
  /\ writer = [r \in RoomIds |-> NoWrites]
  /\ calls = 0
  /\ task = [s \in Sockets |-> <<>>]
  /\ closed = [s \in Sockets |-> FALSE]
  /\ sent = [s \in Sockets |-> NoSent]
  /\ client = [s \in Sockets |-> Lobby]
  /\ emitted = Emit("", "", "", "")

\* ------------------------------------------------------------- HTTP routes
\* do { roomId = generateRoomCode() ... } while (attempts < 10)
MaxAttempts == 10
\* A code that names no room of the model.
FreeCode == "ZZ"
\* What generateRoomCode returns on the successive attempts of one request: a
\* room's code some number of times, then the free code.
Draws ==
  {[i \in 1..MaxAttempts |-> IF i <= k THEN c ELSE FreeCode] :
     k \in 0..MaxAttempts, c \in Rooms}
\* Request bodies of POST /api/room/create.
Bodies ==
  {[userId |-> "u1", userName |-> "A"], [userId |-> "", userName |-> "A"],
   [userId |-> "u1", userName |-> ""]}
\* The identifiers bound where the route builds the room record.
CreateScope == {"req", "res", "userId", "userName", "userAvatar", "roomId", "attempts", "now"}

\* redis.exists(`room:${roomId}`)
CodeExists(st, c) == c \in RoomIds /\ Exists(st.room[c])

\* A loop that takes the first code without looking it up.
PickCodeUnchecked(st, draws, attempts) == [roomId |-> draws[attempts + 1], attempts |-> attempts]

\* The do-while of the create route, from its attempts-th pass on: the code it
\* ends with and the value of attempts.
RECURSIVE PickCode(_, _, _)
PickCode(st, draws, attempts) ==
  LET roomId == draws[attempts + 1]
  IN IF ~CodeExists(st, roomId) THEN [roomId |-> roomId, attempts |-> attempts]
     ELSE IF attempts + 1 < MaxAttempts THEN PickCode(st, draws, attempts + 1)
     ELSE [roomId |-> roomId, attempts |-> attempts + 1]

Response(status, error, roomId) == [status |-> status, error |-> error, roomId |-> roomId]

\* app.post('/api/room/create'): the record's hostId is read from odaId, which no
\* scope of the route binds, so building the record throws and the catch answers.
CreateRoom(body, draws) ==
  LET g == PickCode(Store, draws, 0)
      fresh == [id |-> g.roomId, hostId |-> body.userId, createdAt |-> now,
                mediaType |-> "", mediaUrl |-> "", isPlaying |-> "false",
                currentTime |-> 0, lastSync |-> now]
      st == Expire(Stamp(HmsetRoom(Store, g.roomId, fresh), g.roomId, fresh,
                         Call(0, "create")), g.roomId)
      answer(x) == out' = <<Ev("response", {}, x)>>
  IN /\ last' = In("create", "", [body |-> body, draws |-> draws])
     /\ UNCHANGED <<conn, now, browser, calls, await>>
     /\ IF body.userId = "" \/ body.userName = ""
        THEN answer(Response(400, "Missing required fields", "")) /\ UNCHANGED store
        ELSE IF g.attempts >= MaxAttempts
        THEN answer(Response(500, "Could not generate room code", "")) /\ UNCHANGED store
        ELSE IF "odaId" \notin CreateScope
        THEN answer(Response(500, "Internal server error", "")) /\ UNCHANGED store
        ELSE answer(Response(200, "", g.roomId)) /\ Commit(st)

\* ---------------------------------------------------------------- handlers
\* socket.on('room:join'): binds first, creates the room when the key is absent.
\* A payload without user (u = Null) binds currentRoom, leaves currentUser
\* undefined and joins the socket.io room; the first read of a field of user
\* (user.isHost while the record is built, or user.id for the SADD) then throws
\* into the catch, before any command is sent.
RoomJoin(s, r, u, isHost) ==
  LET fresh == [id |-> r, hostId |-> IF isHost THEN u ELSE "",
                createdAt |-> now, mediaType |-> "", mediaUrl |-> "",
                isPlaying |-> "false", currentTime |-> 0, lastSync |-> now]
      created ==
        IF Exists(roomHash[r]) THEN Store
        ELSE Stamp(HmsetRoom(Store, r, fresh), r, fresh, Call(0, "room:join"))
      st == HmsetUser(SAdd(created, r, u), r, u,
               [id |-> u, socketId |-> s, joinedAt |-> now,
                isHost |-> IF isHost THEN "true" ELSE "false"])
      sr == [socketRooms EXCEPT ![s] = @ \cup {r}]
      room == getRoomData(st, r)
  IN /\ ~closed[s] /\ task[s] = <<>>
     /\ currentRoom' = [currentRoom EXCEPT ![s] = r]
     /\ currentUser' = [currentUser EXCEPT ![s] = u]
     /\ socketRooms' = sr
     /\ last' = In("room:join", s, r)
     /\ sent' = [sent EXCEPT ![s] = NoSent]
     /\ IF u = Null
        THEN out' = <<>> /\ UNCHANGED store
        ELSE /\ Commit(st)
             /\ out' = <<Ev("room:users", ToSelf(s), "")>>
                       \o (IF room # NoRoom /\ room.mediaUrl # ""
                           THEN <<Ev("media:change", ToSelf(s), room.mediaUrl)>> ELSE <<>>)
                       \o <<Ev("room:user_joined", ToOthers(sr, s, r), u)>>
     /\ UNCHANGED <<now, browser, calls, task, closed>>

\* socket.on('join_room'): strict join, the room must exist and have a free place.
JoinRoom(s, r) ==
  LET u == UserOf[s]
      room == getRoomData(Store, r)
      isHost == room.hostId = u
      st == Expire(
              SAdd(HmsetUser(Store, r, u,
                     [id |-> u, socketId |-> s, joinedAt |-> now,
                      isHost |-> IF isHost THEN "true" ELSE "false"]),
                   r, u),
              r)
      sr == [socketRooms EXCEPT ![s] = @ \cup {r}]
  IN /\ ~closed[s] /\ task[s] = <<>>
     /\ last' = In("join_room", s, r)
     /\ UNCHANGED <<now, browser, calls, task, closed>>
     /\ IF room = NoRoom
        THEN /\ out' = <<Ev("error", ToSelf(s), "Room not found")>>
             /\ UNCHANGED <<store, conn, sent>>
        ELSE IF SCard(Store, r) >= MaxParticipants
        THEN /\ out' = <<Ev("error", ToSelf(s), "Room is full")>>
             /\ UNCHANGED <<store, conn, sent>>
        ELSE /\ sent' = [sent EXCEPT ![s] = NoSent]
             /\ currentRoom' = [currentRoom EXCEPT ![s] = r]
             /\ currentUser' = [currentUser EXCEPT ![s] = u]
             /\ socketRooms' = sr
             /\ Commit(st)
             /\ out' = <<Ev("room_joined", ToSelf(s),
                            [isHost |-> IF isHost THEN "true" ELSE "false",
                             messages |-> LRange(st, r, HistoryWindow)]),
                         Ev("participant_joined", ToOthers(sr, s, r), u)>>

\* handleLeaveRoom, run to completion by connection s whose socket.io rooms are
\* sr on entry: the outcomes it can have (one per order of tied participants).
handleLeaveRoom(s, sr) ==
  LET r == currentRoom[s]
      u == currentUser[s]
  IN IF r = Null \/ u = Null
     THEN {[st |-> Store, sr |-> sr, out |-> <<>>]}
     ELSE
       LET st1 == DelUser(SRem(Store, r, u), r, u)
           sr1 == [sr EXCEPT ![s] = @ \ {r}]
           left == Ev("participant_left", ToOthers(sr1, s, r), u)
           room == getRoomData(st1, r)
           notice(st) == RPush(st, r, SystemMessage)
           said == Ev("chat_message", ToAll(sr1, r), "system")
       IN IF SCard(st1, r) = 0
          THEN {[st |-> deleteRoom(st1, r), sr |-> sr1, out |-> <<>>]}
          ELSE IF room # NoRoom /\ room.hostId = u
          THEN {IF Len(q) > 0
                THEN [st |-> notice(HmsetUser(HmsetRoom(st1, r, [hostId |-> q[1]]),
                                              r, q[1], [isHost |-> "true"])),
                      sr |-> sr1,
                      out |-> <<left, Ev("host_changed", ToAll(sr1, r), q[1]), said>>]
                ELSE [st |-> notice(st1), sr |-> sr1, out |-> <<left, said>>]
                : q \in getRoomParticipants(st1, r)}
          ELSE {[st |-> notice(st1), sr |-> sr1, out |-> <<left, said>>]}

\* The effect of one run of handleLeaveRoom for inbound event ev; a run that
\* finds currentRoom or currentUser unset returns before it touches either, so
\* both stay as they are.  After a disconnect the slot stands for a new
\* connection, whose currentRoom and currentUser are null.
Leaves(s, sr, ev) ==
  /\ ~closed[s] /\ task[s] = <<>>
  /\ \E o \in handleLeaveRoom(s, sr) :
       /\ \A r \in RoomIds : Len(o.st.msgs[r]) <= MaxMessages
       /\ Commit(o.st)
       /\ socketRooms' = o.sr
       /\ out' = o.out
  /\ last' = In(ev, s, currentRoom[s])
  /\ IF ev # "disconnect" /\ (currentRoom[s] = Null \/ currentUser[s] = Null)
     THEN UNCHANGED <<currentRoom, currentUser>>
     ELSE /\ currentRoom' = [currentRoom EXCEPT ![s] = Null]
          /\ currentUser' = [currentUser EXCEPT ![s] = Null]
  /\ UNCHANGED <<now, browser, calls, await>>

\* socket.on('leave_room')
LeaveRoom(s) == Leaves(s, socketRooms, "leave_room")

\* socket.on('room:leave')
RoomLeave(s) == Leaves(s, socketRooms, "room:leave")

\* A disconnect handler that logs and does not call handleLeaveRoom.
DisconnectOnlyLogs(s) ==
  /\ ~closed[s] /\ task[s] = <<>>
  /\ last' = In("disconnect", s, currentRoom[s])
  /\ socketRooms' = [socketRooms EXCEPT ![s] = {}]
  /\ currentRoom' = [currentRoom EXCEPT ![s] = Null]
  /\ currentUser' = [currentUser EXCEPT ![s] = Null]
  /\ out' = <<>>
  /\ UNCHANGED <<store, now, browser, calls, await>>

\* socket.on('disconnect'): socket.io has taken the connection out of every room
\* before the handler runs; the connection's slot then stands for a new connection.
Disconnect(s) == Leaves(s, [socketRooms EXCEPT ![s] = {}], "disconnect")

\* Redis drops a room key whose TTL has run out.
KeyExpires(r) ==
  /\ expiry[r] # NoTtl
  /\ now - expiry[r] >= IdleTimeout
  /\ Commit(DelRoomKey(Store, r))
  /\ last' = In("expired", "", r)
  /\ out' = <<>>
  /\ UNCHANGED <<conn, now, browser, calls, await>>

\* The cleanup interval's pass over the keys room:{id}: a room with a record, no
\* members and a createdAt more than the idle timeout ago is deleted.
RECURSIVE SweepRooms(_, _)
SweepRooms(st, rs) ==
  IF rs = {} THEN st
  ELSE LET r == CHOOSE x \in rs : TRUE
           room == getRoomData(st, r)
           swept == IF /\ room # NoRoom
                       /\ SCard(st, r) = 0
                       /\ now - room.createdAt > IdleTimeout
                    THEN deleteRoom(st, r) ELSE st
       IN SweepRooms(swept, rs \ {r})

CleanupSweep ==
  /\ Commit(SweepRooms(Store, {r \in RoomIds : Exists(roomHash[r])}))
  /\ last' = In("cleanup", "", "")
  /\ out' = <<>>
  /\ UNCHANGED <<conn, now, browser, calls, await>>

\* socket.on('chat_message'): the text is checked, trimmed, stored and sent to
\* the whole room.
ChatMessage(s, text) ==
  LET r == currentRoom[s]
      st == LTrim(RPush(Store, r, UserMessage(text.trimmed)), r, ChatLimit)
  IN /\ ~closed[s] /\ task[s] = <<>>
     /\ last' = In("chat_message", s, text)
     /\ UNCHANGED <<conn, now, browser, calls, await>>
     /\ IF r = Null \/ currentUser[s] = Null
        THEN out' = <<>> /\ UNCHANGED store
        ELSE IF text.len = 0 \/ text.trimmed = 0
        THEN out' = <<>> /\ UNCHANGED store
        ELSE IF text.len > MaxTextLength
        THEN out' = <<>> /\ UNCHANGED store
        ELSE /\ Commit(st)
             /\ out' = <<Ev("chat_message", ToAll(socketRooms, r), "user")>>

\* socket.on('chat:message'): the client's message object goes to the others of
\* the room the payload names and into that room's list, as it came.
ChatMessageNs(s, roomId, text) ==
  LET st == LTrim(RPush(Store, roomId, UserMessage(text.len)), roomId, ChatLimit)
  IN /\ ~closed[s] /\ task[s] = <<>>
     /\ last' = In("chat:message", s, text)
     /\ UNCHANGED <<conn, now, browser, calls, await>>
     /\ IF currentRoom[s] = Null
        THEN out' = <<>> /\ UNCHANGED store
        ELSE /\ Commit(st)
             /\ out' = <<Ev("chat:message", ToOthers(socketRooms, s, roomId), "user")>>

\* A chat text whose RPUSH Redis rejects.
Failed(text) == [len |-> text.len, trimmed |-> text.trimmed, failed |-> TRUE]

\* socket.on('chat_message') when redis.rpush rejects: the handler goes to its
\* catch before it reaches the emit.
ChatMessageStoreDown(s, text) ==
  /\ ~closed[s] /\ task[s] = <<>>
  /\ currentRoom[s] # Null /\ currentUser[s] # Null
  /\ text.trimmed # 0 /\ text.len <= MaxTextLength
  /\ last' = In("chat_message", s, Failed(text))
  /\ out' = <<>>
  /\ UNCHANGED <<store, conn, now, browser, calls, await>>

\* socket.on('chat:message') when redis.rpush rejects: the emit stands before the
\* RPUSH, so the message has gone out when the handler reaches its catch.
ChatMessageNsStoreDown(s, roomId, text) ==
  /\ ~closed[s] /\ task[s] = <<>>
  /\ currentRoom[s] # Null
  /\ last' = In("chat:message", s, Failed(text))
  /\ out' = <<Ev("chat:message", ToOthers(socketRooms, s, roomId), "user")>>
  /\ UNCHANGED <<store, conn, now, browser, calls, await>>

\* socket.on('media_change'): resets playback, tells the room, and pushes a
\* system message without trimming the list.
MediaChange(s, m) ==
  LET r == currentRoom[s]
      fields == [mediaType |-> m.mediaType, mediaUrl |-> m.mediaUrl,
                 isPlaying |-> "false", currentTime |-> 0, lastSync |-> now]
      st == RPush(Stamp(HmsetRoom(Store, r, fields), r, fields,
                        Call(calls + 1, "media_change")),
                  r, SystemMessage)
  IN /\ ~closed[s] /\ task[s] = <<>>
     /\ calls < MaxCalls
     /\ last' = In("media_change", s, m)
     /\ UNCHANGED <<conn, now, browser, await>>
     /\ IF r = Null \/ currentUser[s] = Null
        THEN out' = <<>> /\ UNCHANGED <<store, calls>>
        ELSE /\ Len(st.msgs[r]) <= MaxMessages
             /\ Commit(st)
             /\ calls' = calls + 1
             /\ out' = <<Ev("media_changed", ToAll(socketRooms, r), m.mediaUrl),
                         Ev("chat_message", ToAll(socketRooms, r), "system")>>

\* socket.on('media:change'): one HMSET on the room the payload names, without
\* lastSync, then the news to the others of that room.
MediaChangeNs(s, roomId, m) ==
  LET fields == [mediaType |-> m.mediaType, mediaUrl |-> m.mediaUrl,
                 currentTime |-> 0, isPlaying |-> "false"]
      st == Stamp(HmsetRoom(Store, roomId, fields), roomId, fields,
                  Call(calls + 1, "media:change"))
  IN /\ ~closed[s] /\ task[s] = <<>>
     /\ calls < MaxCalls
     /\ last' = In("media:change", s, m)
     /\ UNCHANGED <<conn, now, browser, await>>
     /\ IF currentRoom[s] = Null
        THEN out' = <<>> /\ UNCHANGED <<store, calls>>
        ELSE /\ Commit(st)
             /\ calls' = calls + 1
             /\ out' = <<Ev("media:change", ToOthers(socketRooms, s, roomId), m)>>

\* A sync:state payload that always reports a paused room.
SyncStatePaused(room) ==
  [time |-> room.currentTime, playing |-> FALSE,
   mediaType |-> room.mediaType, mediaUrl |-> room.mediaUrl]

\* The payload of sync_response and of sync:state, from getRoomData's result.
SyncResponse(room) ==
  [isPlaying |-> room.isPlaying, currentTime |-> room.currentTime,
   mediaType |-> room.mediaType, mediaUrl |-> room.mediaUrl, timestamp |-> now]
SyncState(room) ==
  [time |-> room.currentTime, playing |-> room.isPlaying,
   mediaType |-> room.mediaType, mediaUrl |-> room.mediaUrl]

\* socket.on('request_sync'): the persisted state to the sender, if getRoomData
\* finds the room.
RequestSync(s) ==
  LET r == currentRoom[s]
      room == getRoomData(Store, r)
  IN /\ ~closed[s] /\ task[s] = <<>>
     /\ last' = In("request_sync", s, r)
     /\ UNCHANGED <<store, conn, now, browser, calls, await>>
     /\ IF r = Null THEN out' = <<>>
        ELSE IF room # NoRoom
        THEN out' = <<Ev("sync_response", ToSelf(s), SyncResponse(room))>>
        ELSE out' = <<>>

\* socket.on('sync:request')
SyncRequest(s) ==
  LET r == currentRoom[s]
      room == getRoomData(Store, r)
  IN /\ ~closed[s] /\ task[s] = <<>>
     /\ last' = In("sync:request", s, r)
     /\ UNCHANGED <<store, conn, now, browser, calls, await>>
     /\ IF r = Null THEN out' = <<>>
        ELSE IF room # NoRoom
        THEN out' = <<Ev("sync:state", ToSelf(s), SyncState(room))>>
        ELSE out' = <<>>

\* socket.on('sync:state'): the payload is passed on, to the socket of the
\* participant it names or, when it names none, to the others of the room.
SyncStateRelay(s, target) ==
  LET r == currentRoom[s]
  IN /\ ~closed[s] /\ task[s] = <<>>
     /\ last' = In("sync:state", s, target)
     /\ UNCHANGED <<store, conn, now, browser, calls, await>>
     /\ IF r = Null THEN out' = <<>>
        ELSE IF target # Null
        THEN \E q \in getRoomParticipants(Store, r) :
               out' = IF \E i \in 1..Len(q) : q[i] = target
                      THEN <<Ev("sync:state", {userHash[r][target].socketId}, target)>>
                      ELSE <<>>
        ELSE out' = <<Ev("sync:state", ToOthers(socketRooms, s, r), target)>>

\* The fields each playback report writes with its one HMSET.
PlaybackStateFields(isPlaying, time) ==
  [isPlaying |-> IF isPlaying THEN "true" ELSE "false", currentTime |-> time,
   lastSync |-> now]
SyncPlayFields(time) == [isPlaying |-> "true", currentTime |-> time, lastSync |-> now]
SyncPauseFields(time) == [isPlaying |-> "false", currentTime |-> time, lastSync |-> now]
\* sync:seek writing the position without lastSync.
SyncSeekFieldsNoLastSync(time) == [currentTime |-> time]
SyncSeekFields(time) == [currentTime |-> time, lastSync |-> now]
SeekFields(time) == [currentTime |-> time, lastSync |-> now]

\* A playback report of a bound connection: one HMSET on its room, then the
\* rebroadcast; an unbound connection's report returns at once.
Report(s, ev, fields, arg, echo, toSender) ==
  LET r == currentRoom[s]
      st == Stamp(HmsetRoom(Store, r, fields), r, fields, Call(calls + 1, ev))
  IN /\ ~closed[s] /\ task[s] = <<>>
     /\ calls < MaxCalls
     /\ last' = In(ev, s, arg)
     /\ UNCHANGED <<conn, now, browser, await>>
     /\ IF r = Null \/ currentUser[s] = Null
        THEN out' = <<>> /\ UNCHANGED <<store, calls>>
        ELSE /\ Commit(st)
             /\ calls' = calls + 1
             /\ out' = <<Ev(echo, IF toSender THEN ToAll(socketRooms, r)
                                  ELSE ToOthers(socketRooms, s, r), arg)>>

\* socket.on('playback_state'): echoed to the whole room, the sender included.
PlaybackState(s, isPlaying, time) ==
  Report(s, "playback_state", PlaybackStateFields(isPlaying, time), time,
         "playback_sync", TRUE)

\* socket.on('sync:play')
SyncPlay(s, time) == Report(s, "sync:play", SyncPlayFields(time), time, "sync:play", FALSE)

\* socket.on('sync:pause')
SyncPause(s, time) ==
  Report(s, "sync:pause", SyncPauseFields(time), time, "sync:pause", FALSE)

\* socket.on('sync:seek')
SyncSeek(s, time) == Report(s, "sync:seek", SyncSeekFields(time), time, "sync:seek", FALSE)

\* socket.on('seek'): echoed to the whole room, the sender included.
Seek(s, time) == Report(s, "seek", SeekFields(time), time, "seek_sync", TRUE)

\* Date.now() moves on by one unit, up to limit.
Clock(limit) ==
  /\ now < limit
  /\ now' = now + 1
  /\ last' = In("tick", "", "")
  /\ out' = <<>>
  /\ UNCHANGED <<store, conn, calls, await, browser>>

Tick == Clock(MaxTime)

Next ==
  \/ \E s \in Sockets, r \in Rooms, h \in BOOLEAN : RoomJoin(s, r, UserOf[s], h)
  \/ \E s \in Sockets, r \in Rooms : JoinRoom(s, r)
  \/ \E s \in Sockets : LeaveRoom(s)
  \/ \E s \in Sockets : RoomLeave(s)
  \/ \E s \in Sockets : Disconnect(s)
  \/ \E r \in Rooms : KeyExpires(r)
  \/ CleanupSweep
  \/ Tick

Spec == Init /\ [][Next]_vars

\* ------------------------------------------- handleLeaveRoom, await by await
\* A run of handleLeaveRoom is suspended at each await; currentRoom and
\* currentUser are the connection's closure variables, read afresh by every
\* statement, and a statement that dereferences currentUser after another run
\* has set it to null throws into the handler's catch, which ends the run.
\* A step is the code between two awaits: it takes the reply of the command it
\* waited for and issues the next command, which Redis applies in issue order.
\* deleteRoom and getRoomParticipants run here without another handler between
\* their commands.
Frame(pc, n, room, host) == [pc |-> pc, n |-> n, room |-> room, host |-> host]
Without(q, i) == SubSeq(q, 1, i - 1) \o SubSeq(q, i + 1, Len(q))
\* Runs of handleLeaveRoom in flight at once, over all connections.
MaxRuns == 2
RECURSIVE InFlight(_)
InFlight(S) ==
  IF S = {} THEN 0
  ELSE LET s == CHOOSE x \in S : TRUE IN Len(task[s]) + InFlight(S \ {s})

\* Dispatch of room:leave or disconnect: the guard and the SREM.  The client
\* sends room:leave and disconnects at once, so the disconnect may find the
\* leave's run suspended.
BeginLeave(s, ev) ==
  LET r == currentRoom[s]
      u == currentUser[s]
  IN /\ ~closed[s]
     /\ InFlight(Sockets) < MaxRuns
     /\ calls < MaxLeaves
     /\ ev = "disconnect" \/ task[s] = <<>>
     /\ calls' = calls + 1
     /\ last' = In(ev, s, r)
     /\ out' = <<>>
     /\ closed' = [closed EXCEPT ![s] = (ev = "disconnect")]
     /\ socketRooms' = IF ev = "disconnect" THEN [socketRooms EXCEPT ![s] = {}]
                       ELSE socketRooms
     /\ IF r = Null \/ u = Null
        THEN UNCHANGED <<store, task>>
        ELSE /\ Commit(SRem(Store, r, u))
             /\ task' = [task EXCEPT ![s] = Append(@, Frame("del", 0, NoRoom, ""))]
     /\ UNCHANGED <<currentRoom, currentUser, now, browser, sent>>

\* The run ends: by the catch, or by its last statement.
Ends(s, i) == task' = [task EXCEPT ![s] = Without(@, i)]
Goes(s, i, f) == task' = [task EXCEPT ![s][i] = f]
Unbinds(s) ==
  /\ currentRoom' = [currentRoom EXCEPT ![s] = Null]
  /\ currentUser' = [currentUser EXCEPT ![s] = Null]

\* One step of run i of connection s.
StepLeave(s, i) ==
  LET f == task[s][i]
      r == currentRoom[s]
      u == currentUser[s]
      thrown == /\ Ends(s, i) /\ out' = <<>>
                /\ UNCHANGED <<store, conn, sent>>
      notice == /\ Len(messageList[r]) < MaxMessages
                /\ Commit(RPush(Store, r, SystemMessage))
                /\ Goes(s, i, Frame("pushed", f.n, f.room, f.host))
  IN /\ i \in 1..Len(task[s])
     /\ last' = In("resume", s, f.pc)
     /\ UNCHANGED <<now, browser, calls, closed>>
     /\ CASE f.pc = "del" ->
               IF u = Null THEN thrown
               ELSE /\ Commit(DelUser(Store, r, u))
                    /\ Goes(s, i, Frame("scard", 0, NoRoom, ""))
                    /\ out' = <<>>
                    /\ UNCHANGED <<conn, sent>>
          [] f.pc = "scard" ->
               /\ socketRooms' = [socketRooms EXCEPT ![s] = @ \ {r}]
               /\ Goes(s, i, Frame("counted", IF r = Null THEN 0 ELSE SCard(Store, r),
                                   NoRoom, ""))
               /\ out' = <<>>
               /\ UNCHANGED <<store, currentRoom, currentUser, sent>>
          [] f.pc = "counted" /\ f.n = 0 ->
               /\ IF r = Null THEN UNCHANGED store ELSE Commit(deleteRoom(Store, r))
               /\ Goes(s, i, Frame("finish", 0, NoRoom, ""))
               /\ out' = <<>>
               /\ UNCHANGED <<conn, sent>>
          [] f.pc = "counted" /\ f.n # 0 ->
               IF u = Null THEN thrown
               ELSE /\ out' = <<Ev("participant_left", ToOthers(socketRooms, s, r), u)>>
                    /\ sent' = [sent EXCEPT ![s].left = @ + 1]
                    /\ Goes(s, i, Frame("gotRoom", f.n, getRoomData(Store, r), ""))
                    /\ UNCHANGED <<store, conn>>
          [] f.pc = "gotRoom" ->
               IF f.room # NoRoom /\ u = Null THEN thrown
               ELSE IF f.room # NoRoom /\ f.room.hostId = u
               THEN \E q \in getRoomParticipants(Store, r) :
                      /\ out' = <<>>
                      /\ UNCHANGED <<conn, sent>>
                      /\ IF Len(q) > 0
                         THEN /\ Goes(s, i, Frame("listed", f.n, f.room, q[1]))
                              /\ UNCHANGED store
                         ELSE notice
               ELSE IF u = Null THEN thrown
               ELSE notice /\ out' = <<>> /\ UNCHANGED <<conn, sent>>
          [] f.pc = "listed" ->
               /\ IF r = Null THEN UNCHANGED store
                  ELSE Commit(HmsetRoom(Store, r, [hostId |-> f.host]))
               /\ Goes(s, i, Frame("hsetUser", f.n, f.room, f.host))
               /\ out' = <<>>
               /\ UNCHANGED <<conn, sent>>
          [] f.pc = "hsetUser" ->
               /\ IF r = Null THEN UNCHANGED store
                  ELSE Commit(HmsetUser(Store, r, f.host, [isHost |-> "true"]))
               /\ Goes(s, i, Frame("emitHost", f.n, f.room, f.host))
               /\ out' = <<>>
               /\ UNCHANGED <<conn, sent>>
          [] f.pc = "emitHost" ->
               IF u = Null
               THEN /\ Ends(s, i)
                    /\ out' = <<Ev("host_changed", {}, f.host)>>
                    /\ UNCHANGED <<store, conn, sent>>
               ELSE /\ notice
                    /\ out' = <<Ev("host_changed", ToAll(socketRooms, r), f.host)>>
                    /\ sent' = [sent EXCEPT ![s].host = @ + 1]
                    /\ UNCHANGED conn
          [] f.pc = "pushed" ->
               /\ out' = <<Ev("chat_message",
                              IF r = Null THEN {} ELSE ToAll(socketRooms, r), "system")>>
               /\ sent' = [sent EXCEPT ![s].notice = @ + 1]
               /\ Ends(s, i)
               /\ Unbinds(s)
               /\ UNCHANGED <<store, socketRooms>>
          [] f.pc = "finish" ->
               /\ out' = <<>>
               /\ Ends(s, i)
               /\ Unbinds(s)
               /\ UNCHANGED <<store, socketRooms, sent>>

\* A new connection takes the slot of one that has gone: fresh closure variables.
Reconnect(s) ==
  /\ closed[s] /\ task[s] = <<>>
  /\ closed' = [closed EXCEPT ![s] = FALSE]
  /\ Unbinds(s)
  /\ sent' = [sent EXCEPT ![s] = NoSent]
  /\ last' = In("connection", s, "")
  /\ out' = <<>>
  /\ UNCHANGED <<store, socketRooms, now, browser, calls, task>>

NextAwait ==
  \/ \E s \in Sockets, r \in Rooms, h \in BOOLEAN : RoomJoin(s, r, UserOf[s], h)
  \/ \E s \in Sockets : BeginLeave(s, "room:leave")
  \/ \E s \in Sockets : BeginLeave(s, "disconnect")
  \/ \E s \in Sockets, i \in 1..MaxRuns : StepLeave(s, i)
  \/ \E s \in Sockets : Reconnect(s)

SpecAwait == Init /\ [][NextAwait]_vars

\* The cleanup interval firing while leaves are suspended at their awaits, in a
\* room old enough for the sweep to look at.
MaxAge == 2
NextSweep ==
  \/ \E s \in Pair, r \in Rooms, h \in BOOLEAN : RoomJoin(s, r, UserOf[s], h)
  \/ \E s \in Pair, t \in Positions : SyncPlay(s, t)
  \/ \E s \in Pair : BeginLeave(s, "room:leave")
  \/ \E s \in Pair : StepLeave(s, 1)
  \/ CleanupSweep
  \/ Clock(MaxAge)

SpecSweep == Init /\ [][NextSweep]_vars

\* The handlers whose guard reads currentRoom alone, on connections that sent
\* room:join with or without a user.
NextGuard ==
  \/ \E s \in Pair, r \in Rooms, h \in BOOLEAN : RoomJoin(s, r, UserOf[s], h)
  \/ \E s \in Pair, r \in Rooms : RoomJoin(s, r, Null, FALSE)
  \/ \E s \in Pair, r \in Rooms : JoinRoom(s, r)
  \/ \E s \in Pair : RoomLeave(s)
  \/ \E s \in Pair : ChatMessage(s, Hello)
  \/ \E s \in Pair, r \in Rooms : ChatMessageNs(s, r, Hello)
  \/ \E s \in Pair, r \in Rooms, m \in Media : MediaChangeNs(s, r, m)
  \/ \E s \in Pair : SyncRequest(s)
  \/ \E s \in Pair : RequestSync(s)
  \/ \E s \in Pair, target \in {UserOf[x] : x \in Pair} \cup {Null} : SyncStateRelay(s, target)

SpecGuard == Init /\ [][NextGuard]_vars

\* Two connections, two rooms: the payloads of chat:message and media:change name
\* either room, whichever the sender is bound to.
NextCross ==
  \/ \E s \in Pair, r \in RoomIds : RoomJoin(s, r, UserOf[s], FALSE)
  \/ \E s \in Pair : ChatMessage(s, Hello)
  \/ \E s \in Pair, r \in RoomIds : ChatMessageNs(s, r, Hello)
  \/ \E s \in Pair, r \in RoomIds, m \in Media : MediaChangeNs(s, r, m)

SpecCross == Init /\ [][NextCross]_vars

\* Two connections that join either room, again and again, leave and disconnect.
NextRooms ==
  \/ \E s \in Pair, r \in RoomIds : RoomJoin(s, r, UserOf[s], FALSE)
  \/ \E s \in Pair : RoomLeave(s)
  \/ \E s \in Pair : Disconnect(s)

SpecRooms == Init /\ [][NextRooms]_vars

\* Rooms that are written, left and cleaned up: the cleanup interval keeps
\* firing, Redis keeps expiring the keys whose TTL has run out, time goes on.
Video == [mediaType |-> "url", mediaUrl |-> "v"]
NextLive ==
  \/ \E s \in Pair, r \in Rooms : RoomJoin(s, r, UserOf[s], FALSE)
  \/ \E s \in Pair, r \in Rooms : JoinRoom(s, r)
  \/ \E s \in Pair : RoomLeave(s)
  \/ \E s \in Pair, r \in RoomIds : MediaChangeNs(s, r, Video)
  \/ \E r \in RoomIds : KeyExpires(r)
  \/ CleanupSweep
  \/ Clock(MaxAge)

SpecLive ==
  /\ Init /\ [][NextLive]_vars
  /\ WF_vars(CleanupSweep)
  /\ WF_vars(Clock(MaxAge))
  /\ \A r \in RoomIds : WF_vars(KeyExpires(r))

\* --------------------------------------------- playback reports, await by await
\* A playback handler checks its guard and calls redis.hmset before its first
\* await, so the HMSET is issued in the dispatch step; the rebroadcast follows
\* when the reply has come.  Several reports of one connection can be in flight.
ReportFrame(echo, arg, toSender) ==
  [pc |-> "emit", echo |-> echo, arg |-> arg, toSender |-> toSender]

BeginReport(s, ev, fields, arg, echo, toSender) ==
  LET r == currentRoom[s]
      st == Stamp(HmsetRoom(Store, r, fields), r, fields, Call(calls + 1, ev))
  IN /\ ~closed[s]
     /\ \A i \in 1..Len(task[s]) : task[s][i].pc = "emit"
     /\ InFlight(Sockets) < MaxRuns
     /\ calls < MaxCalls
     /\ last' = In(ev, s, arg)
     /\ out' = <<>>
     /\ UNCHANGED <<conn, now, browser, closed, sent>>
     /\ IF r = Null \/ currentUser[s] = Null
        THEN UNCHANGED <<store, calls, task>>
        ELSE /\ Commit(st)
             /\ calls' = calls + 1
             /\ task' = [task EXCEPT ![s] = Append(@, ReportFrame(echo, arg, toSender))]

\* The reply of the HMSET has come: the handler rebroadcasts and ends.  No new
\* inbound event is served, so last stays.
StepReport(s, i) ==
  LET f == task[s][i]
      r == currentRoom[s]
  IN /\ i \in 1..Len(task[s])
     /\ f.pc = "emit"
     /\ out' = <<Ev(f.echo, IF f.toSender THEN ToAll(socketRooms, r)
                             ELSE ToOthers(socketRooms, s, r), f.arg)>>
     /\ Ends(s, i)
     /\ UNCHANGED <<store, conn, now, browser, calls, closed, sent, last>>

NextOrder ==
  \/ \E s \in Pair, r \in Rooms : RoomJoin(s, r, UserOf[s], FALSE)
  \/ \E s \in Pair, p \in BOOLEAN, x \in Positions :
       BeginReport(s, "playback_state", PlaybackStateFields(p, x), x, "playback_sync", TRUE)
  \/ \E s \in Pair, x \in Positions :
       BeginReport(s, "sync:play", SyncPlayFields(x), x, "sync:play", FALSE)
  \/ \E s \in Pair, x \in Positions :
       BeginReport(s, "sync:pause", SyncPauseFields(x), x, "sync:pause", FALSE)
  \/ \E s \in Pair, x \in Positions :
       BeginReport(s, "sync:seek", SyncSeekFields(x), x, "sync:seek", FALSE)
  \/ \E s \in Pair, i \in 1..MaxRuns : StepReport(s, i)

SpecOrder == Init /\ [][NextOrder]_vars

\* ------------------------------------------------- room:join, await by await
\* A run of the room:join handler keeps its payload (roomId, user) and the reply
\* of EXISTS in its frame; each step is the code between two awaits.
JoinFrame(pc, roomId, u, isHost, exists) ==
  [pc |-> pc, roomId |-> roomId, u |-> u, isHost |-> isHost, exists |-> exists]

\* Dispatch of room:join: binds the connection, joins the socket.io room and
\* issues EXISTS.
BeginJoin(s, r, u, isHost) ==
  /\ ~closed[s]
  /\ task[s] = <<>>
  /\ InFlight(Sockets) < MaxRuns
  /\ currentRoom' = [currentRoom EXCEPT ![s] = r]
  /\ currentUser' = [currentUser EXCEPT ![s] = u]
  /\ socketRooms' = [socketRooms EXCEPT ![s] = @ \cup {r}]
  /\ task' = [task EXCEPT ![s] = <<JoinFrame("exists", r, u, isHost, Exists(roomHash[r]))>>]
  /\ last' = In("room:join", s, r)
  /\ out' = <<>>
  /\ sent' = [sent EXCEPT ![s] = NoSent]
  /\ UNCHANGED <<store, now, browser, calls, closed>>

\* One step of the room:join run of connection s.
StepJoin(s) ==
  LET f == task[s][1]
      r == f.roomId
      fresh == [id |-> r, hostId |-> IF f.isHost THEN f.u ELSE "",
                createdAt |-> now, mediaType |-> "", mediaUrl |-> "",
                isPlaying |-> "false", currentTime |-> 0, lastSync |-> now]
      room == getRoomData(Store, r)
      to(pc) == task' = [task EXCEPT ![s] = <<[f EXCEPT !.pc = pc]>>]
  IN /\ task[s] # <<>>
     /\ f.pc \in {"exists", "created", "added", "userSet"}
     /\ last' = In("resume", s, f.pc)
     /\ UNCHANGED <<conn, now, browser, calls, closed, sent>>
     /\ CASE f.pc = "exists" /\ ~f.exists ->
               /\ Commit(Stamp(HmsetRoom(Store, r, fresh), r, fresh, Call(0, "room:join")))
               /\ to("created")
               /\ out' = <<>>
          [] f.pc = "exists" /\ f.exists ->
               /\ Commit(SAdd(Store, r, f.u))
               /\ to("added")
               /\ out' = <<>>
          [] f.pc = "created" ->
               /\ Commit(SAdd(Store, r, f.u))
               /\ to("added")
               /\ out' = <<>>
          [] f.pc = "added" ->
               /\ Commit(HmsetUser(Store, r, f.u,
                          [id |-> f.u, socketId |-> s, joinedAt |-> now,
                           isHost |-> IF f.isHost THEN "true" ELSE "false"]))
               /\ to("userSet")
               /\ out' = <<>>
          [] f.pc = "userSet" ->
               /\ task' = [task EXCEPT ![s] = <<>>]
               /\ out' = <<Ev("room:users", ToSelf(s), "")>>
                         \o (IF room # NoRoom /\ room.mediaUrl # ""
                             THEN <<Ev("media:change", ToSelf(s), room.mediaUrl)>>
                             ELSE <<>>)
                         \o <<Ev("room:user_joined", ToOthers(socketRooms, s, r), f.u)>>
               /\ UNCHANGED store

\* Two connections joining at once, with well-formed create requests.
NextJoin ==
  \/ \E s \in Pair, r \in Rooms, h \in BOOLEAN : BeginJoin(s, r, UserOf[s], h)
  \/ \E s \in Pair : StepJoin(s)
  \/ \E d \in Draws : CreateRoom([userId |-> "u1", userName |-> "A"], d)

SpecJoin == Init /\ [][NextJoin]_vars

\* The chat handlers with the joins and leaves that bind and unbind their senders.
NextChat ==
  \/ \E s \in Sockets, r \in Rooms, h \in BOOLEAN : RoomJoin(s, r, UserOf[s], h)
  \/ \E s \in Sockets : RoomLeave(s)
  \/ \E s \in Sockets, x \in Texts : ChatMessage(s, x)
  \/ \E s \in Sockets, r \in Rooms, x \in Texts : ChatMessageNs(s, r, x)
  \/ \E s \in Sockets : ChatMessageStoreDown(s, Hello)
  \/ \E s \in Sockets, r \in Rooms : ChatMessageNsStoreDown(s, r, Hello)

SpecChat == Init /\ [][NextChat]_vars

\* The playback reports with the joins that bind their senders.
NextSync ==
  \/ \E s \in Sockets, r \in Rooms, h \in BOOLEAN : RoomJoin(s, r, UserOf[s], h)
  \/ \E s \in Sockets, p \in BOOLEAN, x \in Positions : PlaybackState(s, p, x)
  \/ \E s \in Sockets, x \in Positions : SyncPlay(s, x)
  \/ \E s \in Sockets, x \in Positions : SyncPause(s, x)
  \/ \E s \in Sockets, x \in Positions : SyncSeek(s, x)
  \/ \E s \in Sockets, x \in Positions : Seek(s, x)

SpecSync == Init /\ [][NextSync]_vars

\* Media changes, play reports and sync requests, with the joins that bind their
\* senders.
NextMedia ==
  \/ \E s \in Sockets, r \in Rooms, h \in BOOLEAN : RoomJoin(s, r, UserOf[s], h)
  \/ \E s \in Sockets, m \in Media : MediaChange(s, m)
  \/ \E s \in Sockets, r \in Rooms, m \in Media : MediaChangeNs(s, r, m)
  \/ \E s \in Sockets, x \in Positions : SyncPlay(s, x)
  \/ \E s \in Sockets : RequestSync(s)
  \/ \E s \in Sockets : SyncRequest(s)

SpecMedia == Init /\ [][NextMedia]_vars

\* The mutations of a room (joins, play reports, media changes, chat) by two
\* connections, with the clock and the expiry of the room key.
NextIdle ==
  \/ \E s \in Pair, r \in Rooms, h \in BOOLEAN : RoomJoin(s, r, UserOf[s], h)
  \/ \E s \in Pair, r \in Rooms : JoinRoom(s, r)
  \/ \E s \in Pair, m \in Media : MediaChange(s, m)
  \/ \E s \in Pair, x \in Positions : SyncPlay(s, x)
  \/ \E s \in Pair : ChatMessage(s, Hello)
  \/ \E r \in Rooms : KeyExpires(r)
  \/ Tick

SpecIdle == Init /\ [][NextIdle]_vars

\* The create route with the joins and leaves that make and unmake rooms.
NextApi ==
  \/ \E s \in Pair, r \in Rooms, h \in BOOLEAN : RoomJoin(s, r, UserOf[s], h)
  \/ \E s \in Pair : RoomLeave(s)
  \/ \E b \in Bodies, d \in Draws : CreateRoom(b, d)

SpecApi == Init /\ [][NextApi]_vars

\* ------------------------------------------------------------ the browser
\* SyncStreamApp and its players.  A browser step changes the React state of
\* one browser and may emit on its socket; the server handler for what was
\* emitted runs as a later step, and what the server emits reaches a browser
\* through Deliver.
Inert == <<store, conn, now, last, out, calls, await>>

\* The test in front of the emits with isHost left out.
MayEmitAnyHost(c) == c.room # Null

\* isHost && socket: the test in front of every playback and media emit.
MayEmit(c) == c.isHost /\ c.room # Null

\* The sync listeners are registered by the players of a browser that is not
\* host, and act when the player exists.
Listens(c) == c.room # Null /\ ~c.isHost /\ c.loaded
SyncEvents == {"sync:play", "sync:pause", "sync:seek", "sync:state"}

\* The medium the users load: a YouTube video, whose player has every listener
\* the video element's player has.
Clip == [mediaType |-> "youtube", mediaUrl |-> "y"]

\* createRoom of the lobby, then the socket effect: connect and room:join.
createRoom(s, r) ==
  /\ client[s].room = Null /\ currentRoom[s] = Null /\ socketRooms[s] = {}
  /\ client' = [client EXCEPT ![s] = [Lobby EXCEPT !.room = r, !.isHost = TRUE]]
  /\ emitted' = Emit(s, "room:join", r, "user")
  /\ UNCHANGED Inert

\* joinRoom of the lobby, then the socket effect: connect and room:join.
joinRoom(s, r) ==
  /\ client[s].room = Null /\ currentRoom[s] = Null /\ socketRooms[s] = {}
  /\ client' = [client EXCEPT ![s] = [Lobby EXCEPT !.room = r]]
  /\ emitted' = Emit(s, "room:join", r, "user")
  /\ UNCHANGED Inert

\* leaveRoom of the room page: room:leave, and the state goes back to the lobby's
\* (isHost keeps its value until the next createRoom or joinRoom sets it).
leaveRoom(s) ==
  /\ client[s].room # Null
  /\ client' = [client EXCEPT ![s] = [Lobby EXCEPT !.isHost = client[s].isHost]]
  /\ emitted' = Emit(s, "room:leave", client[s].room, "user")
  /\ UNCHANGED Inert

\* handleLoadMedia of the room page: the media is set locally, and emitted by a
\* host; the player a browser that is not host mounts asks for the room's state.
handleLoadMedia(s, m) ==
  /\ client[s].room # Null
  /\ client' = [client EXCEPT ![s].loaded = TRUE, ![s].applied = FALSE]
  /\ emitted' = Emit(s, IF MayEmit(client[s]) THEN "media:change"
                        ELSE IF client[s].loaded THEN "" ELSE "sync:request",
                     m, "user")
  /\ UNCHANGED Inert

\* The position a player reports; no test of the browser reads it.
PlayerTime == 0

\* onStateChange of the YouTube player, onPlay and onPause of the video element,
\* called with the state the player is in: because a listener moved the player,
\* or else because the user played or paused with the player's own controls.
onStateChange(s, playing) ==
  LET c == client[s]
  IN /\ c.room # Null /\ c.loaded
     /\ client' = [client EXCEPT ![s].applied = FALSE]
     /\ emitted' = Emit(s, IF c.isSyncing \/ ~MayEmit(c) THEN ""
                           ELSE IF playing THEN "sync:play" ELSE "sync:pause",
                        PlayerTime, IF c.applied THEN "sync" ELSE "user")
     /\ UNCHANGED Inert

\* handleSeek of the progress bar.
handleSeek(s) ==
  /\ client[s].room # Null /\ client[s].loaded
  /\ emitted' = Emit(s, IF MayEmit(client[s]) THEN "sync:seek" ELSE "", PlayerTime,
                     "user")
  /\ UNCHANGED <<Inert, client>>

\* setTimeout(() => { isSyncing.current = false; }, 500)
Timeout(s) ==
  /\ client[s].isSyncing
  /\ client' = [client EXCEPT ![s].isSyncing = FALSE]
  /\ emitted' = Emit(s, "", "", "sync")
  /\ UNCHANGED Inert

\* handlePlay, handlePause, handleSeek and handleSyncState of the listeners:
\* isSyncing is raised, the player is moved, and may call back with its state.
Apply(c) == [c EXCEPT !.isSyncing = TRUE, !.applied = TRUE]

\* An event the server emitted reaches the browser behind a connection it was
\* sent to.  The host answers sync:request with its player's state, the player
\* a media:change mounts in a browser that is not host asks for the room's
\* state, and an event without a listener changes nothing.
Deliver(s, i) ==
  LET c == client[s]
      e == out[i]
  IN /\ i \in 1..Len(out) /\ s \in e.to /\ c.room # Null
     /\ client' = [client EXCEPT ![s] =
          IF e.ev \in SyncEvents /\ Listens(c) THEN Apply(c)
          ELSE IF e.ev = "media:change"
          THEN [c EXCEPT !.loaded = TRUE, !.applied = FALSE]
          ELSE c]
     /\ emitted' = Emit(s, IF e.ev = "sync:request" /\ MayEmit(c) /\ c.loaded
                           THEN "sync:state"
                           ELSE IF e.ev = "media:change" /\ ~c.isHost /\ ~c.loaded
                           THEN "sync:request" ELSE "",
                        Null, e.ev)
     /\ UNCHANGED Inert

\* The last thing a browser emitted is ev, from the browser behind s.  The
\* server may serve it again: a browser that emits the same event twice leaves
\* the same trace.
Sent(s, ev) == emitted.s = s /\ emitted.ev = ev

\* How many playback and media events the server serves in a run with browsers.
MaxServed == 2

\* The browsers of two users, the server handlers for what they emit, and the
\* delivery of what the server emits.
NextClient ==
  \/ \E s \in Pair, r \in Rooms : createRoom(s, r)
  \/ \E s \in Pair, r \in Rooms : joinRoom(s, r)
  \/ \E s \in Pair : leaveRoom(s)
  \/ \E s \in Pair : handleLoadMedia(s, Clip)
  \/ \E s \in Pair, p \in BOOLEAN : onStateChange(s, p)
  \/ \E s \in Pair : handleSeek(s)
  \/ \E s \in Pair : Timeout(s)
  \/ \E s \in Pair, i \in 1..2 : Deliver(s, i)
  \/ \E s \in Pair :
       /\ Sent(s, "room:join") /\ currentRoom[s] = Null
       /\ RoomJoin(s, emitted.arg, UserOf[s], client[s].isHost)
  \/ \E s \in Pair : Sent(s, "room:leave") /\ currentRoom[s] # Null /\ RoomLeave(s)
  \/ \E s \in Pair :
       /\ Sent(s, "media:change") /\ calls < MaxServed
       /\ MediaChangeNs(s, client[s].room, emitted.arg)
  \/ \E s \in Pair :
       Sent(s, "sync:play") /\ calls < MaxServed /\ SyncPlay(s, emitted.arg)
  \/ \E s \in Pair :
       Sent(s, "sync:pause") /\ calls < MaxServed /\ SyncPause(s, emitted.arg)
  \/ \E s \in Pair :
       Sent(s, "sync:seek") /\ calls < MaxServed /\ SyncSeek(s, emitted.arg)
  \/ \E s \in Pair : Sent(s, "sync:request") /\ SyncRequest(s)

SpecClient == Init /\ [][NextClient]_vars

\* ------------------------------------------------------------------ claims
LeaveEvents == {"leave_room", "room:leave", "disconnect"}
JoinEvents == {"join_room", "room:join"}
Emitted(ev) == {i \in 1..Len(out) : out[i].ev = ev}
Hosts(r) ==
  {u \in UserIds : "id" \in DOMAIN userHash[r][u] /\ userHash[r][u].isHost = "true"}

\* C1: a room with members has exactly one participant record with isHost = true,
\* and a room without members has none.
C1_ExactlyOneHost ==
  \A r \in Rooms :
    IF participantSet[r] # {} THEN Cardinality(Hosts(r)) = 1 ELSE Hosts(r) = {}

\* C2: when the participant named by room.hostId leaves or disconnects and others
\* remain, a remaining participant with the smallest joinedAt becomes host:
\* room.hostId names it, its record has isHost = true, and host_changed naming it
\* goes to the room.
C2_HostLeaveElectsEarliest ==
  [][\A s \in Sockets :
       LET r == currentRoom[s]
           u == currentUser[s]
           rest == participantSet[r] \ {u}
           h == roomHash'[r].hostId
       IN (/\ last'.ev \in LeaveEvents /\ last'.s = s
           /\ r # Null /\ u # Null
           /\ u \in participantSet[r]
           /\ getRoomData(Store, r) # NoRoom
           /\ roomHash[r].hostId = u
           /\ rest # {})
          => /\ h \in rest
             /\ \A v \in rest : userHash[r][h].joinedAt <= userHash[r][v].joinedAt
             /\ userHash'[r][h].isHost = "true"
             /\ \E i \in 1..Len(out') :
                  out'[i] = Ev("host_changed", ToAll(socketRooms', r), h)]_vars

\* C2 witness: a leave has just handed the host role to a participant who joined
\* strictly before another remaining one.
C2_Witness ==
  /\ last.ev \in LeaveEvents
  /\ \E i \in Emitted("host_changed"), r \in Rooms :
       /\ last.arg = r
       /\ roomHash[r].hostId = out[i].arg
       /\ \E v \in participantSet[r] :
            userHash[r][out[i].arg].joinedAt < userHash[r][v].joinedAt

\* C3: a join into a room that already holds maxParticipants members fails with
\* 'Room is full' to the sender and changes neither the membership set, the
\* participant records nor the connection's binding.
C3_FullRoomRejectsJoin ==
  [][\A r \in Rooms :
       (/\ last'.ev \in JoinEvents /\ last'.arg = r
        /\ Cardinality(participantSet[r]) >= MaxParticipants)
       => /\ out' = <<Ev("error", ToSelf(last'.s), "Room is full")>>
          /\ UNCHANGED <<participantSet, userHash, currentRoom, currentUser>>]_vars

\* C4: the membership set of a room never holds more than maxParticipants ids.
C4_NeverOverCapacity ==
  \A r \in Rooms : Cardinality(participantSet[r]) <= MaxParticipants

\* C5: when the last participant of a room leaves or disconnects, the room record,
\* the membership set, every participant record and the chat list of the room are
\* gone, and GET /api/room/:roomId answers 404 Room not found.
C5_LastLeaveDeletesRoom ==
  [][\A s \in Sockets :
       LET r == currentRoom[s]
           u == currentUser[s]
       IN (/\ last'.ev \in LeaveEvents /\ last'.s = s
           /\ r # Null /\ u # Null
           /\ participantSet[r] = {u})
          => /\ roomHash'[r] = Absent
             /\ participantSet'[r] = {}
             /\ \A v \in UserIds : userHash'[r][v] = Absent
             /\ messageList'[r] = <<>>
             /\ ApiGetRoom(Store', r).status = 404
             /\ ApiGetRoom(Store', r).error = "Room not found"]_vars

\* C5 witness: a connection bound to a room has just left it as its last member,
\* and the room is gone.
C5_Witness ==
  /\ last.ev \in LeaveEvents
  /\ last.arg \in Rooms
  /\ participantSet[last.arg] = {}
  /\ roomHash[last.arg] = Absent
  /\ out = <<>>

\* C7: a disconnect of a connection changes the store and emits events exactly as
\* an explicit leave of that connection would in the same state, and conversely.
C7_DisconnectIsLeave ==
  [][\A s \in Sockets :
       /\ (last'.ev = "disconnect" /\ last'.s = s)
          => \E o \in handleLeaveRoom(s, socketRooms) :
               /\ Store' = [o.st EXCEPT !.by = writer']
               /\ out' = o.out
       /\ (last'.ev \in {"leave_room", "room:leave"} /\ last'.s = s)
          => \E o \in handleLeaveRoom(s, [socketRooms EXCEPT ![s] = {}]) :
               /\ Store' = [o.st EXCEPT !.by = writer']
               /\ out' = o.out]_vars

\* C7 witness: a bound connection has disconnected and the host role moved on.
C7_Witness ==
  /\ last.ev = "disconnect"
  /\ last.arg \in Rooms
  /\ Emitted("host_changed") # {}
  /\ Emitted("participant_left") # {}

\* C8: the stored chat list of a room never holds more than the limit (100).
C8_ChatListWithinLimit ==
  \A r \in Rooms : Len(messageList[r]) <= ChatLimit

\* C9: a chat post whose text is empty once trimmed, or longer than 500
\* characters, appends nothing to any chat list and sends nothing, whichever chat
\* event carries it.
C9_InvalidTextRejected ==
  [][(/\ last'.ev \in {"chat_message", "chat:message"}
      /\ (last'.arg.trimmed = 0 \/ last'.arg.len > MaxTextLength))
     => (messageList' = messageList /\ out' = <<>>)]_vars

ReportEvents == {"playback_state", "sync:play", "sync:pause", "sync:seek", "seek"}
SeekEvents == {"sync:seek", "seek"}

\* C10 as stated: the isPlaying, currentTime and lastSync of a room record never
\* come from two different report calls.
C10_TripleFromOneCall ==
  \A r \in Rooms : \A f, g \in Tracked :
    (writer[r][f].ev \in ReportEvents /\ writer[r][g].ev \in ReportEvents)
    => writer[r][f] = writer[r][g]

\* C10 amended: once a report has written a room's currentTime, its lastSync was
\* written by that same call; its isPlaying was written by that call too when the
\* call is a play, pause or playback_state report, and by an earlier write when
\* the call is a seek, which writes no isPlaying.
C10_ReportWritesTogether ==
  \A r \in Rooms :
    LET w == writer[r]
    IN w.currentTime.ev \in ReportEvents
       => /\ w.lastSync = w.currentTime
          /\ w.currentTime.ev \notin SeekEvents => w.isPlaying = w.currentTime
          /\ w.currentTime.ev \in SeekEvents => w.isPlaying.n < w.currentTime.n

\* C10 witness: a seek report has followed a play report, and the record holds
\* the play's isPlaying beside the seek's currentTime and lastSync.
C10_Witness ==
  \E r \in Rooms :
    /\ writer[r].currentTime.ev \in SeekEvents
    /\ writer[r].isPlaying.ev = "sync:play"
    /\ writer[r].lastSync = writer[r].currentTime
    /\ roomHash[r].isPlaying = "true"

\* C6: however an explicit leave and the disconnect of one connection interleave,
\* participant_left, host_changed and the leave notice are each produced at most
\* once for that connection.
C6_LeaveEventsAtMostOnce ==
  \A s \in Sockets : sent[s].left <= 1 /\ sent[s].host <= 1 /\ sent[s].notice <= 1

MediaEvents == {"media_change", "media:change"}
WriteEvents == ReportEvents \cup MediaEvents

\* C11: a step that changes the isPlaying or the currentTime of a room record
\* writes lastSync in the same write: the call that wrote the changed field is the
\* call that last wrote lastSync.
C11_LastSyncWrittenWithPlayback ==
  [][\A r \in Rooms : \A f \in {"isPlaying", "currentTime"} :
       (/\ last'.ev \in WriteEvents
        /\ "id" \in DOMAIN roomHash[r]
        /\ roomHash'[r][f] # roomHash[r][f])
       => writer'[r].lastSync = writer'[r][f]]_vars

\* C12: once a media change is accepted, a sync request of its sender gets the
\* room's state with isPlaying = false, currentTime = 0 and the media type and url
\* of the change, in sync_response and in sync:state alike.
C12_MediaChangeRoundTrip ==
  [][\A s \in Sockets :
       LET r == currentRoom[s]
           m == last'.arg
           room == getRoomData(Store', r)
       IN (last'.ev \in MediaEvents /\ last'.s = s /\ r # Null /\ out' # <<>>)
          => /\ room # NoRoom
             /\ SyncResponse(room).isPlaying = FALSE
             /\ SyncResponse(room).currentTime = 0
             /\ SyncResponse(room).mediaType = m.mediaType
             /\ SyncResponse(room).mediaUrl = m.mediaUrl
             /\ SyncState(room).playing = FALSE
             /\ SyncState(room).time = 0
             /\ SyncState(room).mediaType = m.mediaType
             /\ SyncState(room).mediaUrl = m.mediaUrl]_vars

\* C13: the rebroadcast of an accepted play, pause or seek report goes to every
\* other connection in the sender's room and not to the sender.
C13_RebroadcastExcludesSender ==
  [][\A s \in Sockets :
       LET r == currentRoom[s]
       IN (last'.ev \in ReportEvents /\ last'.s = s /\ r # Null /\ currentUser[s] # Null)
          => /\ Len(out') = 1
             /\ out'[1].to = InRoom(socketRooms, r) \ {s}]_vars

SyncRequests == {"request_sync", "sync:request"}

\* C14: a sync request changes neither the room record, the membership set, the
\* participant records, the chat list nor the TTL; when the bound room has a
\* record, its one reply goes to the sender and carries the isPlaying,
\* currentTime, mediaType and mediaUrl stored in that record.
C14_SyncRequestReadsOnly ==
  [][\A s \in Sockets :
       LET r == currentRoom[s]
           h == roomHash[r]
           p == out'[1].arg
       IN (last'.ev \in SyncRequests /\ last'.s = s)
          => /\ UNCHANGED <<roomHash, participantSet, userHash, messageList, expiry>>
             /\ (r # Null /\ "id" \in DOMAIN h)
                => /\ Len(out') = 1
                   /\ out'[1].to = {s}
                   /\ IF last'.ev = "request_sync"
                      THEN /\ out'[1].ev = "sync_response"
                           /\ p.isPlaying = (h.isPlaying = "true")
                           /\ p.currentTime = h.currentTime
                      ELSE /\ out'[1].ev = "sync:state"
                           /\ p.playing = (h.isPlaying = "true")
                           /\ p.time = h.currentTime
                   /\ p.mediaType = h.mediaType
                   /\ p.mediaUrl = h.mediaUrl]_vars

\* C14 witness: a sync:request has just been answered from a room that is playing
\* a loaded medium.
C14_Witness ==
  /\ last.ev = "sync:request"
  /\ Len(out) = 1
  /\ out[1].ev = "sync:state"
  /\ out[1].arg.playing = TRUE
  /\ out[1].arg.mediaUrl # ""
  /\ out[1].arg.mediaUrl = roomHash[last.arg].mediaUrl

\* C15: a room whose membership set is not empty has a room record.
C15_MembersHaveRoomRecord ==
  \A r \in Rooms : participantSet[r] # {} => getRoomData(Store, r) # NoRoom

\* C16: every accepted mutation re-arms the TTL, so the record of a room expires
\* only when its latest playback or media mutation (the record's lastSync) lies at
\* least an idle timeout back.
C16_ActiveRoomNeverExpires ==
  [][\A r \in Rooms :
       (last'.ev = "expired" /\ last'.arg = r /\ "lastSync" \in DOMAIN roomHash[r])
       => now - roomHash[r].lastSync >= IdleTimeout]_vars

\* C17: a create-room request with a userId and a userName succeeds: it answers
\* 200 with the new roomId and leaves a fresh record under it, with the requester
\* as hostId, no media, isPlaying false, currentTime 0 and the TTL armed.
C17_CreateSucceeds ==
  [][LET b == last'.arg.body
         g == PickCode(Store, last'.arg.draws, 0)
         p == out'[1].arg
     IN (/\ last'.ev = "create" /\ b.userId # "" /\ b.userName # ""
         /\ g.attempts < MaxAttempts)
        => /\ p.status = 200
           /\ p.roomId = g.roomId
           /\ g.roomId \in Rooms
              => /\ roomHash'[g.roomId].hostId = b.userId
                 /\ roomHash'[g.roomId].mediaUrl = ""
                 /\ roomHash'[g.roomId].isPlaying = "false"
                 /\ roomHash'[g.roomId].currentTime = 0
                 /\ expiry'[g.roomId] = now]_vars

\* C18: the create route tries at most 10 codes; when every code it tries names a
\* live room it answers 500 'Could not generate room code' and writes nothing, and
\* no create request changes the record of a room that was live.
C18_CodeAttemptsBounded ==
  [][LET b == last'.arg.body
         d == last'.arg.draws
         g == PickCode(Store, d, 0)
     IN (last'.ev = "create" /\ b.userId # "" /\ b.userName # "")
        => /\ g.attempts <= MaxAttempts
           /\ (\A i \in 1..MaxAttempts : CodeExists(Store, d[i]))
              => /\ out'[1].arg.status = 500
                 /\ out'[1].arg.error = "Could not generate room code"
                 /\ UNCHANGED store
           /\ \A r \in Rooms : Exists(roomHash[r]) => roomHash'[r] = roomHash[r]]_vars

\* C18 witness: a create request whose ten codes all named the live room has just
\* been refused.
C18_Witness ==
  /\ last.ev = "create"
  /\ \A i \in 1..MaxAttempts : CodeExists(Store, last.arg.draws[i])
  /\ out[1].arg.error = "Could not generate room code"

\* C19: a creation write (of the create route, or of room:join on finding no
\* room) never changes the record of a room that already has one.
C19_CreationKeepsLiveRecord ==
  [][\A r \in Rooms :
       (/\ \/ last'.ev = "create"
           \/ last'.ev = "resume" /\ last'.arg = "exists"
        /\ Exists(roomHash[r]))
       => roomHash'[r] = roomHash[r]]_vars

\* C20: a successful join gives the joiner isHost = true exactly when its id is
\* the room's hostId or the room has no host (no record, or an empty hostId), and
\* in the latter case room.hostId becomes the joiner's id.
C20_JoinAssignsHost ==
  [][\A s \in Sockets : \A r \in Rooms :
       LET u == UserOf[s]
           host == IF "hostId" \in DOMAIN roomHash[r] THEN roomHash[r].hostId ELSE ""
       IN (/\ last'.ev \in JoinEvents /\ last'.s = s /\ last'.arg = r
           /\ Emitted("error")' = {})
          => /\ (userHash'[r][u].isHost = "true") <=> (host = u \/ host = "")
             /\ host = "" => roomHash'[r].hostId = u]_vars

\* C21: every participant record's isHost flag says whether room.hostId is the
\* participant's id.
C21_IsHostMatchesHostId ==
  \A r \in Rooms : \A u \in UserIds :
    "isHost" \in DOMAIN userHash[r][u]
    => ((userHash[r][u].isHost = "true")
        <=> ("hostId" \in DOMAIN roomHash[r] /\ roomHash[r].hostId = u))

\* C22: every list getRoomParticipants can return for a room is in ascending
\* joinedAt order and holds each member of the membership set once and nobody else.
C22_ParticipantListSortedAndExact ==
  \A r \in Rooms : \A q \in getRoomParticipants(Store, r) :
    /\ \A i, j \in 1..Len(q) :
         i < j => userHash[r][q[i]].joinedAt <= userHash[r][q[j]].joinedAt
    /\ {q[i] : i \in 1..Len(q)} = participantSet[r]
    /\ Len(q) = Cardinality(participantSet[r])

\* C22 witness: a join has just made a list of two members who joined at
\* different times, a third id being outside the room.
C22_Witness ==
  /\ last.ev \in JoinEvents
  /\ \E r \in Rooms : \E q \in getRoomParticipants(Store, r) :
       /\ Len(q) = 2
       /\ userHash[r][q[1]].joinedAt < userHash[r][q[2]].joinedAt
       /\ UserIds \ participantSet[r] # {}

\* The chat messages a join's reply event carries: room_joined has a messages
\* field, room:users and media:change have none.
History(e) == IF e.ev = "room_joined" THEN e.arg.messages ELSE <<>>

\* C23: a join that succeeds on a room whose chat list holds n messages sends the
\* joiner exactly the last min(n, window) stored messages, oldest first.
C23_JoinReplyCarriesHistory ==
  [][\A s \in Sockets : \A r \in Rooms :
       (/\ last'.ev \in JoinEvents /\ last'.s = s /\ last'.arg = r
        /\ \A i \in 1..Len(out') : out'[i].ev # "error"
        /\ currentRoom'[s] = r
        /\ currentUser'[s] \in participantSet'[r])
       => \E i \in 1..Len(out') :
            /\ out'[i].to = {s}
            /\ History(out'[i]) = LRange(Store, r, HistoryWindow)]_vars

\* C24: a chat_message a bound connection sends with a text that is empty once
\* trimmed, or longer than 500 characters, is answered by exactly one error event,
\* sent to that connection alone.
C24_RejectedChatAnswersOneError ==
  [][\A s \in Sockets :
       (/\ last'.ev = "chat_message" /\ last'.s = s
        /\ currentRoom[s] # Null /\ currentUser[s] # Null
        /\ (last'.arg.trimmed = 0 \/ last'.arg.len > MaxTextLength))
       => /\ Len(out') = 1
          /\ out'[1].ev = "error"
          /\ out'[1].to = {s}]_vars

\* The time of the last accepted mutation of a room's record.
LastActivity(room) ==
  IF "lastSync" \in DOMAIN room /\ room.lastSync > room.createdAt
  THEN room.lastSync ELSE room.createdAt

\* C25: the cleanup sweep deletes a room only when it has no member and its last
\* activity is more than the idle timeout ago.
C25_SweepDeletesOnlyIdleEmptyRooms ==
  [][\A r \in Rooms :
       (/\ last'.ev = "cleanup"
        /\ getRoomData(Store, r) # NoRoom
        /\ ~Exists(roomHash'[r]))
       => /\ participantSet[r] = {}
          /\ now - LastActivity(getRoomData(Store, r)) > IdleTimeout]_vars

\* C26: an event other than a join served on a connection that is not bound to
\* a room and a participant changes nothing in the store and sends nothing.
C26_UnboundEventsHaveNoEffect ==
  [][\A s \in Sockets :
       (/\ last'.s = s
        /\ last'.ev \notin JoinEvents
        /\ (currentRoom[s] = Null \/ currentUser[s] = Null))
       => /\ <<roomHash, participantSet, userHash, messageList, expiry>>'
             = <<roomHash, participantSet, userHash, messageList, expiry>>
          /\ \A i \in 1..Len(out') : out'[i].to = {}]_vars

\* C27: a step of deleteRoom (in a leave that counted zero members, or in the
\* cleanup sweep) that removes a room's record finds the room's membership set
\* empty.
C27_DeletedRoomHasNoMember ==
  [][\A r \in Rooms :
       (/\ \/ last'.ev = "resume" /\ last'.arg = "counted"
           \/ last'.ev = "cleanup"
        /\ Exists(roomHash[r])
        /\ ~Exists(roomHash'[r]))
       => participantSet[r] = {}]_vars

\* C28: whenever no run of handleLeaveRoom is in flight, the hostId of a room's
\* record is empty or names a member of the room, and only members have a
\* participant record saying isHost.
C28_HostIsMemberAtRest ==
  (\A s \in Sockets : task[s] = <<>>)
  => \A r \in Rooms :
       /\ "hostId" \in DOMAIN roomHash[r]
          => roomHash[r].hostId \in participantSet[r] \cup {""}
       /\ Hosts(r) \subseteq participantSet[r]

\* C29: an event other than a join from a connection bound to room A leaves the
\* record and the chat list of every other room B as they were, and none of its
\* events goes to a connection bound to B.
C29_EventsStayInBoundRoom ==
  [][\A s \in Sockets : \A A \in RoomIds :
       (/\ last'.s = s
        /\ last'.ev \notin JoinEvents
        /\ currentRoom[s] = A
        /\ currentUser[s] # Null)
       => \A B \in RoomIds \ {A} :
            /\ roomHash'[B] = roomHash[B]
            /\ messageList'[B] = messageList[B]
            /\ \A i \in 1..Len(out') :
                 \A x \in out'[i].to : currentRoom[x] # B]_vars

\* The events that tell a joiner its join went through.
JoinReplies == {"room_joined", "room:users"}

\* C30: a join on an unbound connection that does not complete (no reply to the
\* joiner) leaves the connection unbound and writes nothing to the store.
C30_FailedJoinLeavesUnbound ==
  [][\A s \in Sockets :
       (/\ last'.ev \in JoinEvents /\ last'.s = s
        /\ currentRoom[s] = Null /\ currentUser[s] = Null
        /\ \A i \in 1..Len(out') : out'[i].ev \notin JoinReplies)
       => /\ currentRoom'[s] = Null
          /\ currentUser'[s] = Null
          /\ <<participantSet, userHash>>' = <<participantSet, userHash>>]_vars

\* C31: once the disconnect handler of a connection has run, no membership set
\* and no participant record of any room names the participant that joined
\* through that connection.
C31_DisconnectRemovesParticipant ==
  [][\A s \in Sockets :
       (last'.ev = "disconnect" /\ last'.s = s)
       => \A r \in RoomIds :
            /\ UserOf[s] \notin participantSet'[r]
            /\ userHash'[r][UserOf[s]] = Absent]_vars

\* C32: whenever no handler is in flight, the participants that have a record
\* user:{room}:{id} are exactly the members of the room's participant set.
C32_RecordsEqualMembership ==
  (\A s \in Sockets : task[s] = <<>>)
  => \A r \in Rooms :
       {u \in UserIds : userHash[r][u] # Absent} = participantSet[r]

\* C33: a room key that exists while the room has no member is eventually
\* removed, or the room gets a member.
C33_EmptyRoomEventuallyRemoved ==
  \A r \in RoomIds :
    (Exists(roomHash[r]) /\ participantSet[r] = {})
      ~> (~Exists(roomHash[r]) \/ participantSet[r] # {})

\* C34: once every playback handler has completed, the room record holds what
\* the last report dispatched wrote: its position, written by that very call, and
\* the playing flag of that report when it is a play or a pause, or else that of
\* the last report before it that carried one.
C34_LastReportPersisted ==
  ((\A s \in Sockets : task[s] = <<>>) /\ last.ev \in ReportEvents
   /\ currentRoom[last.s] # Null)
  => LET r == currentRoom[last.s]
         w == writer[r]
     IN /\ roomHash[r].currentTime = last.arg
        /\ w.currentTime = Call(calls, last.ev)
        /\ last.ev = "sync:play" => roomHash[r].isPlaying = "true"
        /\ last.ev = "sync:pause" => roomHash[r].isPlaying = "false"
        /\ last.ev \notin SeekEvents => w.isPlaying = w.currentTime
        /\ last.ev \in SeekEvents => w.isPlaying.n < calls

\* C34 witness: a pause was dispatched while the play before it was still waiting
\* for its reply; the play's rebroadcast came last and the record holds the pause.
C34_Witness ==
  /\ \A s \in Sockets : task[s] = <<>>
  /\ last.ev = "sync:pause"
  /\ currentRoom[last.s] \in Rooms
  /\ Len(out) = 1 /\ out[1].ev = "sync:play" /\ out[1].arg # last.arg
  /\ roomHash[currentRoom[last.s]].isPlaying = "false"

\* C35: a chat message whose append to the chat list failed is sent to no
\* connection, whichever chat event carried it.
C35_UnstoredChatNotBroadcast ==
  [][(/\ last'.ev \in {"chat_message", "chat:message"}
      /\ "failed" \in DOMAIN last'.arg)
     => \A i \in 1..Len(out') : out'[i].to = {}]_vars

\* C36: a media change by a bound connection resets the room's playback, is
\* announced to the other connections of the room and not to the sender, and
\* appends one system message to the room's chat list, whichever of the two
\* media-change events carries it.
C36_MediaChangeAnnouncedToOthers ==
  [][\A s \in Sockets :
       (/\ last'.ev \in MediaEvents /\ last'.s = s
        /\ currentRoom[s] \in Rooms /\ currentUser[s] # Null)
       => LET r == currentRoom[s]
          IN /\ roomHash'[r].isPlaying = "false"
             /\ roomHash'[r].currentTime = 0
             /\ \E i \in 1..Len(out') :
                  /\ out'[i].ev \in {"media_changed", "media:change"}
                  /\ out'[i].to = InRoom(socketRooms, r) \ {s}
             /\ messageList'[r] = Append(messageList[r], SystemMessage)]_vars

JoinNotices == {"participant_joined", "room:user_joined"}

\* C37: a join that succeeds is announced to the other connections of the room
\* and not to the joiner, and appends one system message to the room's chat
\* list.
C37_JoinAnnouncedAndLogged ==
  [][\A s \in Sockets : \A r \in Rooms :
       (/\ last'.ev \in JoinEvents /\ last'.s = s /\ last'.arg = r
        /\ \A i \in 1..Len(out') : out'[i].ev # "error"
        /\ currentRoom'[s] = r
        /\ currentUser'[s] \in participantSet'[r])
       => /\ \E i \in 1..Len(out') :
               /\ out'[i].ev \in JoinNotices
               /\ out'[i].to = InRoom(socketRooms', r) \ {s}
          /\ messageList'[r] = Append(messageList[r], SystemMessage)]_vars

\* The emits a browser guards with isHost.
HostEvents == {"sync:play", "sync:pause", "sync:seek", "media:change"}

\* C38: what a browser emits in a step caused by a sync event it received (the
\* listener that applies it, the player's callback that follows, the timer that
\* lowers isSyncing) is never a sync event, and a sync:play, sync:pause,
\* sync:seek or media:change is only ever emitted by a browser whose isHost is
\* true.
C38_NoSyncFeedback ==
  /\ emitted.cause \in SyncEvents \cup {"sync"} => emitted.ev \notin SyncEvents
  /\ emitted.ev \in HostEvents => client[emitted.s].isHost

\* A browser that is not host has applied a sync:play the server relayed from
\* the host, its isSyncing timer has run out, and the player's callback has run
\* with isSyncing false and emitted nothing.
C38_Witness ==
  /\ emitted.cause = "sync" /\ emitted.ev = ""
  /\ ~client[emitted.s].isHost /\ ~client[emitted.s].isSyncing
  /\ ~client[emitted.s].applied
  /\ last.ev = "sync:play" /\ last.s # emitted.s

\* C39: when host_changed has just reached the browser of the participant that
\* room.hostId names, that browser's isHost is true.
C39_ElectedClientBecomesHost ==
  \A s \in Sockets : \A r \in Rooms :
    (/\ client[s].room = r /\ currentRoom[s] = r
     /\ emitted.s = s /\ emitted.cause = "host_changed"
     /\ "hostId" \in DOMAIN roomHash[r]
     /\ roomHash[r].hostId = UserOf[s])
    => client[s].isHost

====
